---- MODULE Spec2Model ----
(***************************************************************************)
(* PII Protector: the span validator of the detectPii server action, the   *)
(* HighlightedTextViewer reconciler, the piiSummaryCounts aggregator and   *)
(* the PiiProtectorClient state machine around them.                       *)
(*                                                                         *)
(* Strings the code inspects character by character (documents, values,    *)
(* category labels, schema texts) are sequences of one-character strings.  *)
(* Strings the code only stores or compares (messages, file names,         *)
(* confidence levels) are TLA+ strings.                                    *)
(***************************************************************************)
EXTENDS Integers, Sequences, FiniteSets, TLC

VARIABLES
  rawData,          \* useState<string>('')            the text shown and scanned
  piiResults,       \* useState<DetectPiiOutput|null>  Null or [piiEntities |-> seq]
  parts,            \* what HighlightedTextViewer renders for the displayed results
  rendered,         \* TRUE once parts is the rendering of rawData and piiResults
  flowIn,           \* detectPii: the input of the call
  flowPc,           \* detectPii: "start", "prompt" (awaiting the oracle), "done", "failed"
  oracleOut,        \* detectPii: the output the prompt resolved with
  flowOut,          \* detectPii: what the call settled with
  promptCalls,      \* detectPii: oracle invocations made by the call
  warnings,         \* detectPii: the entities console.warn was called with, in order
  rawBytes,         \* the size in bytes of the text in rawData
  fileName,         \* useState<string>('')
  jsonSchema,       \* useState<string>('')
  isLoading,        \* useState<boolean>(false)
  isProcessingPdf,  \* useState<boolean>(false)
  error,            \* useState<string>('')
  selectedPiiTypes, \* useState<string[]>(PII_TYPES)
  scanPc,           \* handleScan: "idle" or "awaiting" (at await Promise.all)
  scanInput,        \* handleScan: the input of the oracle calls in flight
  detectCall,       \* handleScan: the detectPii promise
  schemaCall,       \* handleScan: the generatePiiSchema promise
  readers,          \* processFile: the file reads and PDF extractions in flight
  memo,             \* HighlightedTextViewer: the useMemo cell of the mounted instance
  seen              \* the renders of the mounted viewer so far: props and parts

viewVars == <<rawData, piiResults, parts, rendered>>
flowVars == <<flowIn, flowPc, oracleOut, flowOut, promptCalls, warnings>>
scanVars == <<scanPc, scanInput, detectCall, schemaCall>>
clientVars == <<rawBytes, fileName, jsonSchema, isLoading, isProcessingPdf, error,
                selectedPiiTypes, scanVars, readers>>
memoVars == <<memo, seen>>
vars == <<viewVars, flowVars, clientVars, memoVars>>

\* ------------------------------------------------------------------ bounds

\* Longest document explored by the viewer specification.
MaxDocLen == 2
\* Most entities handed to the viewer at once.
MaxEntities == 2

\* ------------------------------------------------------------- JS strings

\* null: the state holds no DetectPiiOutput.
Null == [null |-> TRUE]

Min(a, b) == IF a < b THEN a ELSE b
Max(a, b) == IF a > b THEN a ELSE b

\* String.prototype.substring: both indices are clamped to [0, length] and
\* swapped when the first exceeds the second.
Substring(s, a, b) ==
  LET n  == Len(s)
      ca == Min(Max(a, 0), n)
      cb == Min(Max(b, 0), n)
  IN SubSeq(s, Min(ca, cb) + 1, Max(ca, cb))

\* String.prototype.includes
Includes(s, v) ==
  \E k \in 0..(Len(s) - Len(v)) : SubSeq(s, k + 1, k + Len(v)) = v

RECURSIVE Concat(_)
\* The text a sequence of strings spells when written one after another.
Concat(ss) == IF ss = <<>> THEN <<>> ELSE Head(ss) \o Concat(Tail(ss))

\* All strings over alphabet A of length at most n.
StringsUpTo(A, n) == UNION {[1..k -> A] : k \in 0..n}

\* All sequences over S of length at most n.
SeqsUpTo(S, n) == UNION {[1..k -> S] : k \in 0..n}

\* ------------------------------------------------- HighlightedTextViewer

Plain(t) == [kind |-> "Plain", text |-> t]
Annotated(t, e) == [kind |-> "Annotated", text |-> t, entity |-> e]

RECURSIVE InsertByStart(_, _)
\* One step of the stable sort: e goes after every element whose start is
\* not greater than its own.
InsertByStart(sorted, e) ==
  IF sorted = <<>> THEN <<e>>
  ELSE IF Head(sorted).start - e.start > 0 THEN <<e>> \o sorted
  ELSE <<Head(sorted)>> \o InsertByStart(Tail(sorted), e)

RECURSIVE SortByStart(_)
\* [...entities].sort((a, b) => a.start - b.start), a stable sort.
SortByStart(es) ==
  IF es = <<>> THEN <<>>
  ELSE InsertByStart(SortByStart(SubSeq(es, 1, Len(es) - 1)), es[Len(es)])

SkipsEntity_NoOverlapGuard(entity, lastIndex, text) ==
  entity.end > Len(text) \/ entity.start >= entity.end

SkipsEntity_NoEmptyGuard(entity, lastIndex, text) ==
  entity.start < lastIndex \/ entity.end > Len(text)

\* The guard at the top of the forEach callback: the entity is not rendered.
SkipsEntity(entity, lastIndex, text) ==
  entity.start < lastIndex \/ entity.end > Len(text) \/ entity.start >= entity.end

ViewerStep_DropAdvances(acc, entity, text) ==
  IF SkipsEntity(entity, acc.lastIndex, text)
  THEN [acc EXCEPT !.lastIndex = Max(acc.lastIndex, entity.end)]
  ELSE LET gap == IF entity.start > acc.lastIndex
                  THEN <<Plain(Substring(text, acc.lastIndex, entity.start))>>
                  ELSE <<>>
       IN [result    |-> acc.result \o gap \o
                         <<Annotated(Substring(text, entity.start, entity.end), entity)>>,
           lastIndex |-> entity.end]

ViewerStep_NoGap(acc, entity, text) ==
  IF SkipsEntity(entity, acc.lastIndex, text) THEN acc
  ELSE [result    |-> Append(acc.result,
                             Annotated(Substring(text, entity.start, entity.end), entity)),
        lastIndex |-> entity.end]

\* One call of the forEach callback on the accumulator (result, lastIndex).
ViewerStep(acc, entity, text) ==
  IF SkipsEntity(entity, acc.lastIndex, text) THEN acc
  ELSE LET gap == IF entity.start > acc.lastIndex
                  THEN <<Plain(Substring(text, acc.lastIndex, entity.start))>>
                  ELSE <<>>
       IN [result    |-> acc.result \o gap \o
                         <<Annotated(Substring(text, entity.start, entity.end), entity)>>,
           lastIndex |-> entity.end]

RECURSIVE ViewerLoop(_, _, _)
ViewerLoop(acc, es, text) ==
  IF es = <<>> THEN acc
  ELSE ViewerLoop(ViewerStep(acc, Head(es), text), Tail(es), text)

\* The useMemo body of HighlightedTextViewer: the list of rendered parts.
HighlightedTextViewer(text, entities) ==
  IF Len(entities) = 0 THEN <<Plain(text)>>
  ELSE LET done == ViewerLoop([result |-> <<>>, lastIndex |-> 0],
                              SortByStart(entities), text)
       IN IF done.lastIndex < Len(text)
          THEN done.result \o <<Plain(Substring(text, done.lastIndex, Len(text)))>>
          ELSE done.result

\* ------------------------------------------------ viewer specification
\* The viewer as a pure function of its props: every document and every
\* entity list within the bounds is handed to it.

ViewerAlphabet == {"a", "b"}
ViewerDocs == StringsUpTo(ViewerAlphabet, MaxDocLen)
ViewerEntities ==
  [type : {<<"N", "A", "M", "E">>, <<"E", "M", "A", "I", "L">>}, value : {<<"a">>},
   start : (0 - 1)..MaxDocLen, end : (0 - 1)..(MaxDocLen + 1), confidence : {"high"}]

\* A document with overlapping spans: A and B overlap, C starts where A ends.
HelloWorld == <<"H", "e", "l", "l", "o", "W", "o", "r", "l", "d", "!", "!">>
SpanA ==
  [type |-> <<"N", "A", "M", "E">>, value |-> <<"H", "e", "l", "l", "o">>, start |-> 0, end |-> 5,
   confidence |-> "high"]
SpanB ==
  [type |-> <<"A", "D", "D", "R", "E", "S", "S">>, value |-> <<"l", "o", "W", "o", "r">>,
   start |-> 3, end |-> 8, confidence |-> "high"]
SpanC ==
  [type |-> <<"E", "M", "A", "I", "L">>, value |-> <<"W", "o">>, start |-> 5, end |-> 7,
   confidence |-> "low"]
ViewerScenarios ==
  {[text |-> HelloWorld, entities |-> es] :
     es \in {<<SpanA, SpanB>>, <<SpanB, SpanA>>, <<SpanB>>, <<SpanA, SpanB, SpanC>>,
             <<SpanC, SpanB, SpanA>>}}

InitViewer ==
  /\ \/ /\ rawData \in ViewerDocs
        /\ piiResults \in [piiEntities : SeqsUpTo(ViewerEntities, MaxEntities)]
     \/ \E sc \in ViewerScenarios :
          /\ rawData = sc.text
          /\ piiResults = [piiEntities |-> sc.entities]
  /\ parts = <<>>
  /\ rendered = FALSE
  /\ flowIn = Null
  /\ flowPc = "idle"
  /\ oracleOut = Null
  /\ flowOut = Null
  /\ promptCalls = 0
  /\ warnings = <<>>
  /\ rawBytes = 0
  /\ fileName = ""
  /\ jsonSchema = <<>>
  /\ isLoading = FALSE
  /\ isProcessingPdf = FALSE
  /\ error = ""
  /\ selectedPiiTypes = <<>>
  /\ scanPc = "idle"
  /\ scanInput = Null
  /\ detectCall = [status |-> "none"]
  /\ schemaCall = [status |-> "none"]
  /\ readers = <<>>
  /\ memo = Null
  /\ seen = <<>>

\* The component renders its props.
ViewerRender ==
  /\ ~rendered
  /\ parts' = HighlightedTextViewer(rawData, piiResults.piiEntities)
  /\ rendered' = TRUE
  /\ UNCHANGED <<rawData, piiResults, flowVars, clientVars, memoVars>>

NextViewer == ViewerRender

SpecViewer == InitViewer /\ [][NextViewer]_vars

\* ------------------------------------------- mounted viewer specification
\* One mounted HighlightedTextViewer rendered again and again with changing
\* props. useMemo keeps the parts of the last render and recomputes them
\* when a dependency, text or entities, is not the one of the last render
\* (Object.is: for the array, the same array object). An array object is
\* [ref, items]; the arrays handed to the viewer are never mutated, so a
\* ref stands for the same items throughout.

\* Most renders of the mounted viewer.
MaxRenders == 3
MaxUploads == 2

MemoTexts == {<<"a", "b">>, <<"b", "a">>}
MemoArrays ==
  LET n == [type |-> <<"N", "A", "M", "E">>, value |-> <<"a">>, start |-> 0, end |-> 1,
            confidence |-> "high"]
      e == [type |-> <<"E", "M", "A", "I", "L">>, value |-> <<"b">>, start |-> 1,
            end |-> 2, confidence |-> "high"]
      o == [type |-> <<"N", "A", "M", "E">>, value |-> <<"a">>, start |-> 0, end |-> 2,
            confidence |-> "low"]
  IN {[ref |-> 1, items |-> <<n>>], [ref |-> 2, items |-> <<n>>],
      [ref |-> 3, items |-> <<e, o>>], [ref |-> 4, items |-> <<>>]}

MemoHit_TextOnly(cell, text, entities) ==
  cell # Null /\ cell.text = text

\* The dependencies [text, entities] are those of the last render.
MemoHit(cell, text, entities) ==
  cell # Null /\ cell.text = text /\ cell.ref = entities.ref

\* useMemo(() => ..., [text, entities])
UseMemo(cell, text, entities) ==
  IF MemoHit(cell, text, entities) THEN cell.value
  ELSE HighlightedTextViewer(text, entities.items)

InitMemo ==
  /\ rawData = <<>>
  /\ piiResults = Null
  /\ parts = <<>>
  /\ rendered = FALSE
  /\ flowIn = Null
  /\ flowPc = "idle"
  /\ oracleOut = Null
  /\ flowOut = Null
  /\ promptCalls = 0
  /\ warnings = <<>>
  /\ rawBytes = 0
  /\ fileName = ""
  /\ jsonSchema = <<>>
  /\ isLoading = FALSE
  /\ isProcessingPdf = FALSE
  /\ error = ""
  /\ selectedPiiTypes = <<>>
  /\ scanPc = "idle"
  /\ scanInput = Null
  /\ detectCall = [status |-> "none"]
  /\ schemaCall = [status |-> "none"]
  /\ readers = <<>>
  /\ memo = Null
  /\ seen = <<>>

\* The viewer is rendered with props text and entities.
MemoRender(text, entities) ==
  /\ Len(seen) < MaxRenders
  /\ parts' = UseMemo(memo, text, entities)
  /\ memo' = [text |-> text, ref |-> entities.ref, value |-> parts']
  /\ rawData' = text
  /\ piiResults' = [piiEntities |-> entities.items]
  /\ rendered' = TRUE
  /\ seen' = Append(seen, [text |-> text, entities |-> entities.items, parts |-> parts'])
  /\ UNCHANGED <<flowVars, clientVars>>

\* The results are hidden (a scan starts, or the state is reset): the
\* viewer unmounts and its memo cell is gone.
MemoUnmount ==
  /\ rendered
  /\ memo' = Null
  /\ piiResults' = Null
  /\ parts' = <<>>
  /\ rendered' = FALSE
  /\ UNCHANGED <<rawData, seen, flowVars, clientVars>>

NextMemo ==
  \/ \E text \in MemoTexts, entities \in MemoArrays : MemoRender(text, entities)
  \/ MemoUnmount

SpecMemo == InitMemo /\ [][NextMemo]_vars

\* ------------------------------------------------------ piiSummaryCounts

SummaryStep_NoIncrement(acc, entity) ==
  [k \in DOMAIN acc \cup {entity.type} |-> IF k = entity.type THEN 1 ELSE acc[k]]

\* The reducer: acc[key] = (acc[key] || 0) + 1.
SummaryStep(acc, entity) ==
  LET key == entity.type
  IN [k \in DOMAIN acc \cup {key} |->
        IF k = key THEN (IF key \in DOMAIN acc THEN acc[key] ELSE 0) + 1 ELSE acc[k]]

RECURSIVE SummaryReduce(_, _)
SummaryReduce(acc, es) ==
  IF es = <<>> THEN acc ELSE SummaryReduce(SummaryStep(acc, Head(es)), Tail(es))

\* The useMemo body of piiSummaryCounts: an object from type to count.
PiiSummaryCounts(results) ==
  IF results = Null THEN <<>> ELSE SummaryReduce(<<>>, results.piiEntities)

RECURSIVE KeysInOrder(_, _)
\* The own keys of the reduced object in the order Object.entries lists
\* them: string keys in the order they were first assigned.
KeysInOrder(keys, es) ==
  IF es = <<>> THEN keys
  ELSE IF \E i \in 1..Len(keys) : keys[i] = Head(es).type
  THEN KeysInOrder(keys, Tail(es))
  ELSE KeysInOrder(Append(keys, Head(es).type), Tail(es))

\* Object.entries(piiSummaryCounts): the badges of the summary, in order.
SummaryEntries(results) ==
  LET counts == PiiSummaryCounts(results)
      keys == IF results = Null THEN <<>> ELSE KeysInOrder(<<>>, results.piiEntities)
  IN [i \in 1..Len(keys) |-> <<keys[i], counts[keys[i]]>>]

\* ---------------------------------------------------------- detectPiiFlow

\* The catalog of categories offered by the client (const PII_TYPES).
EMAIL == <<"E", "M", "A", "I", "L">>
NAME == <<"N", "A", "M", "E">>
SSN == <<"S", "S", "N">>
PHONE == <<"P", "H", "O", "N", "E">>
ADDRESS == <<"A", "D", "D", "R", "E", "S", "S">>
PASSPORT == <<"P", "A", "S", "S", "P", "O", "R", "T">>
DOB == <<"D", "O", "B">>
AADHAAR == <<"A", "A", "D", "H", "A", "A", "R">>
PAN == <<"P", "A", "N">>
\* A label of no category.
XYZ_UNKNOWN == <<"X", "Y", "Z", "_", "U", "N", "K", "N", "O", "W", "N">>
PII_TYPES == <<EMAIL, NAME, SSN, PHONE, ADDRESS, PASSPORT, DOB, AADHAAR, PAN>>

\* const PII_TYPE_CORRECTIONS, as <<key, value>> pairs.
PII_TYPE_CORRECTIONS ==
  <<<<<<"E", "M", "A", "I", "L", "S">>, EMAIL>>,
    <<<<"E", "M", "A", "I", "L", "_", "A", "D", "D", "R", "E", "S", "S">>, EMAIL>>,
    <<<<"E", "M", "A", "I", "L", " ", "A", "D", "D", "R", "E", "S", "S">>, EMAIL>>,
    <<<<"N", "A", "M", "E", "S">>, NAME>>,
    <<<<"P", "E", "R", "S", "O", "N", "_", "N", "A", "M", "E">>, NAME>>,
    <<<<"P", "E", "R", "S", "O", "N", " ", "N", "A", "M", "E">>, NAME>>,
    <<<<"P", "H", "O", "N", "E", "_", "N", "U", "M", "B", "E", "R">>, PHONE>>,
    <<<<"P", "H", "O", "N", "E", " ", "N", "U", "M", "B", "E", "R">>, PHONE>>,
    <<<<"P", "H", "O", "N", "E", "S">>, PHONE>>,
    <<<<"A", "D", "D", "R", "E", "S", "S", "E", "S">>, ADDRESS>>,
    <<<<"A", "D", "D", "R", "E", "S", "S", "S">>, ADDRESS>>,
    <<<<"D", "O", "B", "S">>, DOB>>,
    <<<<"D", "A", "T", "E", "_", "O", "F", "_", "B", "I", "R", "T", "H">>, DOB>>,
    <<<<"S", "S", "N", "S">>, SSN>>,
    <<<<"S", "O", "C", "I", "A", "L", "_", "S", "E", "C", "U", "R", "I", "T", "Y", "_",
        "N", "U", "M", "B", "E", "R">>, SSN>>,
    <<<<"P", "A", "S", "S", "P", "O", "R", "T", "S">>, PASSPORT>>,
    <<<<"A", "A", "D", "H", "A", "A", "R", "S">>, AADHAAR>>,
    <<<<"P", "A", "N", "S">>, PAN>>>>

LowerCase ==
  <<"a", "b", "c", "d", "e", "f", "g", "h", "i", "j", "k", "l", "m",
    "n", "o", "p", "q", "r", "s", "t", "u", "v", "w", "x", "y", "z">>
UpperCase ==
  <<"A", "B", "C", "D", "E", "F", "G", "H", "I", "J", "K", "L", "M",
    "N", "O", "P", "Q", "R", "S", "T", "U", "V", "W", "X", "Y", "Z">>

\* String.prototype.toUpperCase
ToUpperCase(s) ==
  [i \in 1..Len(s) |->
     IF \E k \in 1..Len(LowerCase) : LowerCase[k] = s[i]
     THEN UpperCase[CHOOSE k \in 1..Len(LowerCase) : LowerCase[k] = s[i]]
     ELSE s[i]]

\* String.prototype.replace with a string pattern: the first occurrence
\* only, wherever it is.
Replace(s, pat, rep) ==
  LET hits == {k \in 0..(Len(s) - Len(pat)) : SubSeq(s, k + 1, k + Len(pat)) = pat}
  IN IF hits = {} THEN s
     ELSE LET k == CHOOSE h \in hits : \A j \in hits : h <= j
          IN SubSeq(s, 1, k) \o rep \o SubSeq(s, k + Len(pat) + 1, Len(s))

WhiteSpace == {" ", "\t", "\n"}

\* String.prototype.trim
Trim(s) ==
  LET keep == {i \in 1..Len(s) : s[i] \notin WhiteSpace}
  IN IF keep = {} THEN <<>>
     ELSE SubSeq(s, CHOOSE i \in keep : \A j \in keep : i <= j,
                    CHOOSE i \in keep : \A j \in keep : i >= j)

\* Array.prototype.includes
ArrayIncludes(arr, x) == \E i \in 1..Len(arr) : arr[i] = x

\* A field the oracle left out (undefined) is a field the record lacks.
Has(entity, f) == f \in DOMAIN entity

\* entity.type.toUpperCase().replace('PII_', '').trim()
NormalizeType(type) == Trim(Replace(ToUpperCase(type), <<"P", "I", "I", "_">>, <<>>))

CorrectType_Identity(t) == t

\* PII_TYPE_CORRECTIONS[normalizedType] || normalizedType
CorrectType(t) ==
  IF \E i \in 1..Len(PII_TYPE_CORRECTIONS) : PII_TYPE_CORRECTIONS[i][1] = t
  THEN PII_TYPE_CORRECTIONS[CHOOSE i \in 1..Len(PII_TYPE_CORRECTIONS) :
                              PII_TYPE_CORRECTIONS[i][1] = t][2]
  ELSE t

FailsSanity_NoOrder(entity) ==
  \/ ~Has(entity, "value") \/ entity.value = <<>>
  \/ ~Has(entity, "start")
  \/ ~Has(entity, "end")

\* The sanity check on value, start and end: TRUE when the entity is dropped.
FailsSanity(entity) ==
  \/ ~Has(entity, "value") \/ entity.value = <<>>
  \/ ~Has(entity, "start")
  \/ ~Has(entity, "end")
  \/ entity.end <= entity.start

TypeRequested_Always(input, normalizedType) == TRUE

\* input.piiTypesToScan.includes(normalizedType)
TypeRequested(input, normalizedType) ==
  ArrayIncludes(input.piiTypesToScan, normalizedType)

\* The padding of the fuzzy index check.
IndexPadding == 2

IndexPlausible_PadOnly(data, entity) ==
  Includes(Substring(data, 0, Len(data)), entity.value)

IndexPlausible_ExactOnly(data, entity) ==
  Substring(data, entity.start, entity.end) = entity.value

IndexPlausible_WiderPad(data, entity) ==
  \/ Substring(data, entity.start, entity.end) = entity.value
  \/ Includes(Substring(data, Max(0, entity.start - (IndexPadding + 1)),
                              Min(Len(data), entity.end + (IndexPadding + 1))),
              entity.value)

\* The final validation of the indices: the exact substring, or the value
\* inside the substring widened by the padding on both sides.
IndexPlausible(data, entity) ==
  \/ Substring(data, entity.start, entity.end) = entity.value
  \/ Includes(Substring(data, Max(0, entity.start - IndexPadding),
                              Min(Len(data), entity.end + IndexPadding)),
              entity.value)

MapEntity_DropsConfidence(entity, input) ==
  IF FailsSanity(entity) THEN [tag |-> "null", warned |-> FALSE]
  ELSE IF ~Has(entity, "type") THEN [tag |-> "throw", warned |-> FALSE]
  ELSE LET normalizedType == CorrectType(NormalizeType(entity.type))
       IN IF ~TypeRequested(input, normalizedType)
          THEN [tag |-> "null", warned |-> FALSE]
          ELSE IF ~IndexPlausible(input.data, entity)
          THEN [tag |-> "null", warned |-> TRUE]
          ELSE [tag |-> "entity", warned |-> FALSE,
                entity |-> [type |-> normalizedType, value |-> entity.value,
                            start |-> entity.start, end |-> entity.end]]

\* The map callback: what one entity of the oracle output becomes.
\*   [tag |-> "null"]            dropped (warned: console.warn was called)
\*   [tag |-> "entity", ...]     kept, with the normalized type
\*   [tag |-> "throw"]           entity.type is undefined: TypeError
MapEntity(entity, input) ==
  IF FailsSanity(entity) THEN [tag |-> "null", warned |-> FALSE]
  ELSE IF ~Has(entity, "type") THEN [tag |-> "throw", warned |-> FALSE]
  ELSE LET normalizedType == CorrectType(NormalizeType(entity.type))
       IN IF ~TypeRequested(input, normalizedType)
          THEN [tag |-> "null", warned |-> FALSE]
          ELSE IF ~IndexPlausible(input.data, entity)
          THEN [tag |-> "null", warned |-> TRUE]
          ELSE [tag |-> "entity", warned |-> FALSE,
                entity |-> [entity EXCEPT !.type = normalizedType]]

\* .map(...) over the entities: the results up to and including the first
\* one that throws.
Mapped(entities, input) == [i \in 1..Len(entities) |-> MapEntity(entities[i], input)]

RECURSIVE FilterEntities(_)
\* .filter(entity => entity !== null)
FilterEntities(ms) ==
  IF ms = <<>> THEN <<>>
  ELSE IF Head(ms).tag = "entity" THEN <<Head(ms).entity>> \o FilterEntities(Tail(ms))
  ELSE FilterEntities(Tail(ms))

\* The flow body after the prompt has answered with output.
DetectPiiFlow(input, output) ==
  IF output = Null \/ ~Has(output, "piiEntities")
  THEN [status |-> "ok", piiEntities |-> <<>>]
  ELSE LET ms == Mapped(output.piiEntities, input)
       IN IF \E i \in 1..Len(ms) : ms[i].tag = "throw"
          THEN [status |-> "error", message |-> "TypeError"]
          ELSE [status |-> "ok", piiEntities |-> FilterEntities(ms)]

RECURSIVE Warned(_)
\* The entities console.warn is called with while the list is mapped: the
\* callback runs on the elements in order and stops at the first that throws.
Warned(ms) ==
  IF ms = <<>> \/ Head(ms).tag = "throw" THEN <<>>
  ELSE (IF Head(ms).warned THEN <<Head(ms).about>> ELSE <<>>) \o Warned(Tail(ms))

\* The console.warn calls of the flow body for an oracle output.
Warnings(input, output) ==
  IF output = Null \/ ~Has(output, "piiEntities") THEN <<>>
  ELSE Warned([i \in 1..Len(output.piiEntities) |->
                 [tag |-> MapEntity(output.piiEntities[i], input).tag,
                  warned |-> MapEntity(output.piiEntities[i], input).warned,
                  about |-> output.piiEntities[i]]])

SkipsFlow_Never(input) == FALSE

\* detectPii: no PII types selected, return an empty result without the flow.
SkipsFlow(input) == Len(input.piiTypesToScan) = 0

\* -------------------------------------------------- flow specification
\* detectPii as a server action: every input and every oracle output
\* within the bounds.

\* Longest document handed to detectPii.
MaxDataLen == 3
\* Longest value of a candidate.
MaxValueLen == 2

FlowAlphabet == {"a", "b"}
\* A document one character longer than the others, with its last character
\* standing nowhere else in it.
FlowDriftDoc == [i \in 1..(MaxDataLen + 1) |-> IF i = MaxDataLen + 1 THEN "a" ELSE "b"]
FlowDocs == StringsUpTo(FlowAlphabet, MaxDataLen) \cup {FlowDriftDoc}
FlowTypeLists == {<<>>, <<NAME>>, <<EMAIL, NAME>>}
FlowInputs == [data : FlowDocs, piiTypesToScan : FlowTypeLists]

\* Labels the oracle answers with.
FlowLabels ==
  {NAME, <<"p", "i", "i", "_", "e", "m", "a", "i", "l", "s">>,
   <<" ", "N", "a", "m", "e", "s", " ">>, <<"X", "Y", "Z">>}
FlowValues == StringsUpTo(FlowAlphabet, MaxValueLen)
FlowIndices == (0 - 1)..(MaxDataLen + 1)

\* Candidates with every field, and candidates lacking one of them.
FlowCandidates ==
  [type : FlowLabels, value : FlowValues, start : FlowIndices, end : FlowIndices,
   confidence : {"high"}]
  \cup [value : FlowValues, start : FlowIndices, end : FlowIndices, confidence : {"high"}]
  \cup [type : FlowLabels, start : FlowIndices, end : FlowIndices, confidence : {"high"}]
  \cup [type : FlowLabels, value : FlowValues, end : FlowIndices, confidence : {"high"}]
  \cup [type : FlowLabels, value : FlowValues, start : FlowIndices, confidence : {"high"}]

\* The second candidate of a two-candidate answer.
FlowCompanions ==
  {[type |-> NAME, value |-> <<"a">>, start |-> 0, end |-> 1, confidence |-> "high"],
   [type |-> <<"X", "Y", "Z">>, value |-> <<"a">>, start |-> 0, end |-> 1,
    confidence |-> "low"],
   [value |-> <<"a">>, start |-> 0, end |-> 1, confidence |-> "low"]}

FlowOutputs ==
  {Null, [usage |-> "none"]}
  \cup {[piiEntities |-> es] : es \in SeqsUpTo(FlowCandidates, 1)}
  \cup {[piiEntities |-> <<c, k>>] : c \in FlowCandidates, k \in FlowCompanions}
  \cup {[piiEntities |-> <<k, c>>] : c \in FlowCandidates, k \in FlowCompanions}

InitFlow ==
  /\ flowIn \in FlowInputs
  /\ flowPc = "start"
  /\ oracleOut = Null
  /\ flowOut = Null
  /\ promptCalls = 0
  /\ warnings = <<>>
  /\ rawData = <<>>
  /\ piiResults = Null
  /\ parts = <<>>
  /\ rendered = FALSE
  /\ rawBytes = 0
  /\ fileName = ""
  /\ jsonSchema = <<>>
  /\ isLoading = FALSE
  /\ isProcessingPdf = FALSE
  /\ error = ""
  /\ selectedPiiTypes = <<>>
  /\ scanPc = "idle"
  /\ scanInput = Null
  /\ detectCall = [status |-> "none"]
  /\ schemaCall = [status |-> "none"]
  /\ readers = <<>>
  /\ memo = Null
  /\ seen = <<>>

\* detectPii(input) is called.
FlowDetectPii ==
  /\ flowPc = "start"
  /\ IF SkipsFlow(flowIn)
     THEN /\ flowOut' = [status |-> "ok", piiEntities |-> <<>>]
          /\ flowPc' = "done"
          /\ UNCHANGED promptCalls
     ELSE /\ promptCalls' = promptCalls + 1
          /\ flowPc' = "prompt"
          /\ UNCHANGED flowOut
  /\ UNCHANGED <<flowIn, oracleOut, warnings, viewVars, clientVars, memoVars>>

\* await prompt(input) resolves with the oracle's output.
FlowPromptReturns ==
  /\ flowPc = "prompt"
  /\ \E output \in FlowOutputs :
       /\ oracleOut' = output
       /\ flowOut' = DetectPiiFlow(flowIn, output)
       /\ warnings' = Warnings(flowIn, output)
  /\ flowPc' = "done"
  /\ UNCHANGED <<flowIn, promptCalls, viewVars, clientVars, memoVars>>

\* await prompt(input) rejects: the oracle call failed.
FlowPromptFails ==
  /\ flowPc = "prompt"
  /\ flowOut' = [status |-> "error", message |-> "oracle"]
  /\ flowPc' = "failed"
  /\ UNCHANGED <<flowIn, oracleOut, promptCalls, warnings, viewVars, clientVars, memoVars>>

NextFlow ==
  \/ FlowDetectPii
  \/ FlowPromptReturns
  \/ FlowPromptFails

SpecFlow == InitFlow /\ [][NextFlow]_vars

\* --------------------------------------------------- label specification
\* detectPii with the whole catalog requested and one well-indexed
\* candidate, whose label ranges over the spellings an oracle may use.

\* Most spaces around a label.
MaxLabelPad == 1

LabelDoc == <<"a", "b">>
LabelInput == [data |-> LabelDoc, piiTypesToScan |-> PII_TYPES]

\* The words: the catalog entries, the keys of the correction table, and
\* words that are neither.
LabelWords ==
  {PII_TYPES[i] : i \in 1..Len(PII_TYPES)}
  \cup {PII_TYPE_CORRECTIONS[i][1] : i \in 1..Len(PII_TYPE_CORRECTIONS)}
  \cup {XYZ_UNKNOWN, <<"E", "M", "A", "I", "L", " ", "A", "D", "D", "R", "E", "S", "S", "E", "S">>, <<>>}
\* toLowerCase, the inverse of ToUpperCase on letters.
ToLowerCase(s) ==
  [i \in 1..Len(s) |->
     IF \E k \in 1..Len(UpperCase) : UpperCase[k] = s[i]
     THEN LowerCase[CHOOSE k \in 1..Len(UpperCase) : UpperCase[k] = s[i]]
     ELSE s[i]]
LabelPrefixes == {<<>>, <<"P", "I", "I", "_">>}
LabelPads == {[i \in 1..k |-> " "] : k \in 0..MaxLabelPad}
LabelSpellings ==
  {l \o p \o w \o r : l \in LabelPads, p \in LabelPrefixes, w \in LabelWords,
                      r \in LabelPads}
\* Labels with PII_ after the first letter of a catalog entry or of a key of
\* the correction table, and with a blank after a leading PII_.
LabelInfixes ==
  {SubSeq(w, 1, 1) \o <<"P", "I", "I", "_">> \o SubSeq(w, 2, Len(w)) :
     w \in LabelWords \ {<<>>}}
  \cup {<<"P", "I", "I", "_", " ">> \o w : w \in LabelWords}
Labels == LabelSpellings \cup {ToLowerCase(w) : w \in LabelSpellings} \cup LabelInfixes

LabelOutputs ==
  {[piiEntities |-> <<[type |-> t, value |-> <<"a">>, start |-> 0, end |-> 1,
                       confidence |-> "high"]>>] : t \in Labels}

InitLabel ==
  /\ flowIn = LabelInput
  /\ flowPc = "start"
  /\ oracleOut = Null
  /\ flowOut = Null
  /\ promptCalls = 0
  /\ warnings = <<>>
  /\ rawData = <<>>
  /\ piiResults = Null
  /\ parts = <<>>
  /\ rendered = FALSE
  /\ rawBytes = 0
  /\ fileName = ""
  /\ jsonSchema = <<>>
  /\ isLoading = FALSE
  /\ isProcessingPdf = FALSE
  /\ error = ""
  /\ selectedPiiTypes = <<>>
  /\ scanPc = "idle"
  /\ scanInput = Null
  /\ detectCall = [status |-> "none"]
  /\ schemaCall = [status |-> "none"]
  /\ readers = <<>>
  /\ memo = Null
  /\ seen = <<>>

\* await prompt(input) resolves with a candidate under some label.
LabelPromptReturns ==
  /\ flowPc = "prompt"
  /\ \E output \in LabelOutputs :
       /\ oracleOut' = output
       /\ flowOut' = DetectPiiFlow(flowIn, output)
       /\ warnings' = Warnings(flowIn, output)
  /\ flowPc' = "done"
  /\ UNCHANGED <<flowIn, promptCalls, viewVars, clientVars, memoVars>>

NextLabel ==
  \/ FlowDetectPii
  \/ LabelPromptReturns

SpecLabel == InitLabel /\ [][NextLabel]_vars

\* ---------------------------------------------------- scan specification
\* One scan end to end on the CSV example of the prompt: detectPii
\* validates the oracle's candidates, the client stores the result and
\* renders it with HighlightedTextViewer and piiSummaryCounts.

\* The example document, a header line and one record.
CsvDoc ==
  <<"n", "a", "m", "e", ",", "e", "m", "a", "i", "l", "\n", "A", "l", "i", "c", "e",
    ",", "a", "l", "i", "c", "e", "@", "w", "e", "b", ".", "c", "o", "m">>
\* The same document with the line break written as the two characters \ and n,
\* as the prompt text shows it.
CsvDocEscaped ==
  <<"n", "a", "m", "e", ",", "e", "m", "a", "i", "l", "\\", "n", "A", "l", "i", "c",
    "e", ",", "a", "l", "i", "c", "e", "@", "w", "e", "b", ".", "c", "o", "m">>
Alice == <<"A", "l", "i", "c", "e">>
AliceEmail ==
  <<"a", "l", "i", "c", "e", "@", "w", "e", "b", ".", "c", "o", "m">>

\* How far the oracle's indices are off, either way.
MaxDrift == 3

ScanDocs == {CsvDoc, CsvDocEscaped}
ScanTypeLists == {<<EMAIL, NAME>>, <<NAME>>}
ScanInputs == [data : ScanDocs, piiTypesToScan : ScanTypeLists]

\* The candidates of the example, their indices shifted by up to MaxDrift
\* around those of the prompt.
ScanNames ==
  {[type |-> NAME, value |-> Alice, start |-> 12 + d, end |-> 17 + d,
    confidence |-> "high"] : d \in (0 - MaxDrift)..MaxDrift}
ScanEmails ==
  {[type |-> EMAIL, value |-> AliceEmail, start |-> 18 + d, end |-> 31 + d,
    confidence |-> "high"] : d \in (0 - MaxDrift)..MaxDrift}
ScanOutputs ==
  {[piiEntities |-> <<n, e>>] : n \in ScanNames, e \in ScanEmails}
  \cup {[piiEntities |-> <<e, n>>] : n \in ScanNames, e \in ScanEmails}

InitScan ==
  /\ flowIn \in ScanInputs
  /\ flowPc = "start"
  /\ oracleOut = Null
  /\ flowOut = Null
  /\ promptCalls = 0
  /\ warnings = <<>>
  /\ rawData = <<>>
  /\ piiResults = Null
  /\ parts = <<>>
  /\ rendered = FALSE
  /\ rawBytes = 0
  /\ fileName = ""
  /\ jsonSchema = <<>>
  /\ isLoading = FALSE
  /\ isProcessingPdf = FALSE
  /\ error = ""
  /\ selectedPiiTypes = <<>>
  /\ scanPc = "idle"
  /\ scanInput = Null
  /\ detectCall = [status |-> "none"]
  /\ schemaCall = [status |-> "none"]
  /\ readers = <<>>
  /\ memo = Null
  /\ seen = <<>>

\* await prompt(input) resolves with the oracle's answer to the example.
ScanPromptReturns ==
  /\ flowPc = "prompt"
  /\ \E output \in ScanOutputs :
       /\ oracleOut' = output
       /\ flowOut' = DetectPiiFlow(flowIn, output)
       /\ warnings' = Warnings(flowIn, output)
  /\ flowPc' = "done"
  /\ UNCHANGED <<flowIn, promptCalls, viewVars, clientVars, memoVars>>

\* setPiiResults(piiDetectionResult) and the rendering of the results.
ScanShown ==
  /\ flowPc = "done" /\ flowOut.status = "ok"
  /\ rawData' = flowIn.data
  /\ piiResults' = [piiEntities |-> flowOut.piiEntities]
  /\ parts' = HighlightedTextViewer(rawData', piiResults'.piiEntities)
  /\ rendered' = TRUE
  /\ flowPc' = "shown"
  /\ UNCHANGED <<flowIn, oracleOut, flowOut, promptCalls, warnings, clientVars, memoVars>>

NextScan ==
  \/ FlowDetectPii
  \/ ScanPromptReturns
  \/ ScanShown

SpecScan == InitScan /\ [][NextScan]_vars

\* ------------------------------------------------------------------- JSON
\* JSON.parse and JSON.stringify(value, null, 2) on the JSON texts made of
\* arrays and digits: a number is [t |-> "num", lit], an array is
\* [t |-> "arr", items].

JsonWs == {" ", "\n", "\t"}
JsonDigits == {"1", "2"}
JsonFail == [ok |-> FALSE]

RECURSIVE SkipWs(_, _)
\* The first position from i on that holds no white space.
SkipWs(s, i) == IF i <= Len(s) /\ s[i] \in JsonWs THEN SkipWs(s, i + 1) ELSE i

RECURSIVE DigitsEnd(_, _)
\* The first position from i on that holds no digit.
DigitsEnd(s, i) == IF i <= Len(s) /\ s[i] \in JsonDigits THEN DigitsEnd(s, i + 1) ELSE i

RECURSIVE ParseValue(_, _)
RECURSIVE ParseItems(_, _, _)
\* Parses one value starting at position i: [ok, value, next].
ParseValue(s, i) ==
  LET j == SkipWs(s, i)
  IN IF j > Len(s) THEN JsonFail
     ELSE IF s[j] \in JsonDigits
     THEN [ok |-> TRUE, value |-> [t |-> "num", lit |-> SubSeq(s, j, DigitsEnd(s, j) - 1)],
           next |-> DigitsEnd(s, j)]
     ELSE IF s[j] = "["
     THEN LET k == SkipWs(s, j + 1)
          IN IF k <= Len(s) /\ s[k] = "]"
             THEN [ok |-> TRUE, value |-> [t |-> "arr", items |-> <<>>], next |-> k + 1]
             ELSE ParseItems(s, j + 1, <<>>)
     ELSE JsonFail

\* Parses the items of an array after its "[" or after a ",".
ParseItems(s, i, acc) ==
  LET v == ParseValue(s, i)
  IN IF ~v.ok THEN JsonFail
     ELSE LET k == SkipWs(s, v.next)
          IN IF k > Len(s) THEN JsonFail
             ELSE IF s[k] = "," THEN ParseItems(s, k + 1, Append(acc, v.value))
             ELSE IF s[k] = "]"
             THEN [ok |-> TRUE, value |-> [t |-> "arr", items |-> Append(acc, v.value)],
                   next |-> k + 1]
             ELSE JsonFail

\* JSON.parse: [ok |-> FALSE] stands for the SyntaxError.
JsonParse(s) ==
  LET v == ParseValue(s, 1)
  IN IF v.ok /\ SkipWs(s, v.next) > Len(s) THEN [ok |-> TRUE, value |-> v.value]
     ELSE JsonFail

Spaces(n) == [i \in 1..n |-> " "]

RECURSIVE JsonStringify(_, _)
RECURSIVE JsonJoinItems(_, _)
\* The items of an array, one per line at the given depth, separated by ",\n".
JsonJoinItems(items, depth) ==
  IF items = <<>> THEN <<>>
  ELSE Spaces(2 * depth) \o JsonStringify(Head(items), depth)
       \o (IF Len(items) > 1 THEN <<",", "\n">> \o JsonJoinItems(Tail(items), depth)
           ELSE <<>>)

\* JSON.stringify(value, null, 2) of a value nested depth levels deep.
JsonStringify(value, depth) ==
  IF value.t = "num" THEN value.lit
  ELSE IF value.items = <<>> THEN <<"[", "]">>
  ELSE <<"[", "\n">> \o JsonJoinItems(value.items, depth + 1)
       \o <<"\n">> \o Spaces(2 * depth) \o <<"]">>

\* ------------------------------------------------------ PiiProtectorClient

\* 5MB limit
FileSizeLimit == 5 * 1024 * 1024

\* Number of catalog entries the client is configured with.
MaxClientTypes == 2
\* Most file reads in flight at once.
MaxReaders == 1

\* The catalog the checkboxes are rendered from.
ClientTypes == SubSeq(PII_TYPES, 1, MaxClientTypes)

MsgNoData == "No data to scan. Please upload a file or paste data."
MsgNoTypes == "Please select at least one PII attribute to scan for."
MsgTooLarge == "File size exceeds 5MB. Please upload a smaller file."
MsgReadFailed == "Failed to read the file."
MsgScanFailed == "Failed to process data. "
MsgPdfFailed == "Failed to extract data from PDF. "

\* Files the user picks or drops.
ClientFiles ==
  {[name |-> "a.txt", type |-> "text/plain", size |-> 2, content |-> <<"a", "b">>],
   [name |-> "p.pdf", type |-> "application/pdf", size |-> 9, content |-> <<>>],
   [name |-> "big.txt", type |-> "text/plain", size |-> FileSizeLimit + 1,
    content |-> <<"b", "a">>]}

\* Texts the user types or pastes into the text area, with their size in bytes.
ClientTexts ==
  {[text |-> <<>>, bytes |-> 0], [text |-> <<"a">>, bytes |-> 1],
   [text |-> <<"b", "a">>, bytes |-> FileSizeLimit + 1]}

\* Answers of the detection oracle.
ClientCandidates ==
  {[type |-> NAME, value |-> <<"a">>, start |-> 0, end |-> 1, confidence |-> "high"],
   [type |-> <<"p", "i", "i", "_", "e", "m", "a", "i", "l", "s">>, value |-> <<"b">>,
    start |-> 1, end |-> 2, confidence |-> "low"]}
ClientOutputs ==
  {Null, [piiEntities |-> <<[value |-> <<"a">>, start |-> 0, end |-> 1]>>]}
  \cup {[piiEntities |-> es] : es \in SeqsUpTo(ClientCandidates, MaxEntities)}
  \cup {[piiEntities |-> <<c, d, c>>] : c, d \in ClientCandidates}

\* Answers of the schema oracle and of the PDF extraction oracle.
ClientSchemas == {Null, [schema |-> <<"[", "1", "]">>], [schema |-> <<"x">>]}
ClientPdfData == {Null, [jsonData |-> <<"[", "1", "]">>], [jsonData |-> <<"x">>]}

IsLoadingState == isLoading \/ isProcessingPdf

\* What the results section shows after the state change of an action.
Render ==
  /\ UNCHANGED memoVars
  /\ rendered' = (piiResults' # Null /\ ~isLoading')
  /\ parts' = IF piiResults' # Null /\ ~isLoading'
              THEN HighlightedTextViewer(rawData', piiResults'.piiEntities)
              ELSE <<>>

RemoveAt(s, i) == SubSeq(s, 1, i - 1) \o SubSeq(s, i + 1, Len(s))

RECURSIVE Without(_, _)
\* prev.filter(t => t !== type)
Without(s, x) ==
  IF s = <<>> THEN <<>>
  ELSE IF Head(s) = x THEN Without(Tail(s), x) ELSE <<Head(s)>> \o Without(Tail(s), x)

InitClient ==
  /\ rawData = <<>>
  /\ rawBytes = 0
  /\ fileName = ""
  /\ piiResults = Null
  /\ jsonSchema = <<>>
  /\ isLoading = FALSE
  /\ isProcessingPdf = FALSE
  /\ error = ""
  /\ selectedPiiTypes = ClientTypes
  /\ scanPc = "idle"
  /\ scanInput = Null
  /\ detectCall = [status |-> "none"]
  /\ schemaCall = [status |-> "none"]
  /\ readers = <<>>
  /\ memo = Null
  /\ seen = <<>>
  /\ parts = <<>>
  /\ rendered = FALSE
  /\ flowIn = Null
  /\ flowPc = "idle"
  /\ oracleOut = Null
  /\ flowOut = Null
  /\ promptCalls = 0
  /\ warnings = <<>>

\* A checkbox is toggled.
HandlePiiTypeChange(type) ==
  /\ ~IsLoadingState
  /\ selectedPiiTypes' = IF ArrayIncludes(selectedPiiTypes, type)
                         THEN Without(selectedPiiTypes, type)
                         ELSE Append(selectedPiiTypes, type)
  /\ UNCHANGED <<rawData, rawBytes, fileName, piiResults, jsonSchema, isLoading,
                 isProcessingPdf, error, scanVars, readers, flowVars>>
  /\ Render

\* processFile(file), reached from the file input and from a drop.
ProcessFile(file) ==
  IF file.size > FileSizeLimit
  THEN /\ error' = MsgTooLarge
       /\ UNCHANGED <<rawData, rawBytes, fileName, piiResults, jsonSchema,
                      isProcessingPdf, readers>>
  ELSE /\ error' = ""
       /\ rawData' = <<>>
       /\ rawBytes' = 0
       /\ piiResults' = Null
       /\ jsonSchema' = <<>>
       /\ fileName' = file.name
       /\ isProcessingPdf' = IF file.type = "application/pdf" THEN TRUE ELSE isProcessingPdf
       /\ readers' = Append(readers, [file |-> file, stage |-> "reading"])

\* The file input changes (it is disabled while loading or processing).
HandleFileChange(file) ==
  /\ ~IsLoadingState
  /\ Len(readers) < MaxReaders
  /\ ProcessFile(file)
  /\ UNCHANGED <<isLoading, selectedPiiTypes, scanVars, flowVars>>
  /\ Render

\* A file is dropped on the upload label.
HandleDrop(file) ==
  /\ Len(readers) < MaxReaders
  /\ ProcessFile(file)
  /\ UNCHANGED <<isLoading, selectedPiiTypes, scanVars, flowVars>>
  /\ Render

\* reader.onload of a text read, or of a PDF read (which starts the extraction).
ReaderLoad(i) ==
  /\ readers[i].stage = "reading"
  /\ IF readers[i].file.type = "application/pdf"
     THEN /\ readers' = [readers EXCEPT ![i].stage = "extracting"]
          /\ UNCHANGED <<rawData, rawBytes>>
     ELSE /\ rawData' = readers[i].file.content
          /\ rawBytes' = readers[i].file.size
          /\ readers' = RemoveAt(readers, i)
  /\ UNCHANGED <<fileName, piiResults, jsonSchema, isLoading, isProcessingPdf, error,
                 selectedPiiTypes, scanVars, flowVars>>
  /\ Render

\* reader.onerror
ReaderError(i) ==
  /\ readers[i].stage = "reading"
  /\ error' = MsgReadFailed
  /\ isProcessingPdf' = IF readers[i].file.type = "application/pdf" THEN FALSE
                        ELSE isProcessingPdf
  /\ readers' = RemoveAt(readers, i)
  /\ UNCHANGED <<rawData, rawBytes, fileName, piiResults, jsonSchema, isLoading,
                 selectedPiiTypes, scanVars, flowVars>>
  /\ Render

\* await extractPdfFields(...) settles: answer is "failed" or the result.
ExtractSettles(i, answer) ==
  /\ readers[i].stage = "extracting"
  /\ IF answer # [status |-> "failed"] /\ answer # Null /\ JsonParse(answer.jsonData).ok
     THEN /\ rawData' = JsonStringify(JsonParse(answer.jsonData).value, 0)
          /\ rawBytes' = Len(rawData')
          /\ UNCHANGED error
     ELSE /\ error' = MsgPdfFailed \o (IF answer = [status |-> "failed"] THEN "oracle"
                                       ELSE IF answer = Null THEN "TypeError"
                                       ELSE "SyntaxError")
          /\ UNCHANGED <<rawData, rawBytes>>
  /\ isProcessingPdf' = FALSE
  /\ readers' = RemoveAt(readers, i)
  /\ UNCHANGED <<fileName, piiResults, jsonSchema, isLoading, selectedPiiTypes,
                 scanVars, flowVars>>
  /\ Render

\* The text area changes (it is disabled while loading or processing).
TextareaChange(t) ==
  /\ ~IsLoadingState
  /\ t.text # rawData
  /\ rawData' = t.text
  /\ rawBytes' = t.bytes
  /\ UNCHANGED <<fileName, piiResults, jsonSchema, isLoading, isProcessingPdf, error,
                 selectedPiiTypes, scanVars, readers, flowVars>>
  /\ Render

\* The X button next to the file name: resetState.
ResetState ==
  /\ fileName # "" /\ ~IsLoadingState
  /\ error' = ""
  /\ rawData' = <<>>
  /\ rawBytes' = 0
  /\ piiResults' = Null
  /\ jsonSchema' = <<>>
  /\ fileName' = ""
  /\ UNCHANGED <<isLoading, isProcessingPdf, selectedPiiTypes, scanVars, readers, flowVars>>
  /\ Render

ClearedResults_Kept(prev) == prev

\* setPiiResults(null) at the start of a scan.
ClearedResults(prev) == Null

\* The Scan button (disabled without data and while loading or processing).
HandleScan ==
  /\ rawData # <<>> /\ ~IsLoadingState
  /\ IF rawData = <<>>
     THEN /\ error' = MsgNoData
          /\ UNCHANGED <<piiResults, jsonSchema, isLoading, scanVars>>
     ELSE IF Len(selectedPiiTypes) = 0
     THEN /\ error' = MsgNoTypes
          /\ UNCHANGED <<piiResults, jsonSchema, isLoading, scanVars>>
     ELSE /\ isLoading' = TRUE
          /\ error' = ""
          /\ piiResults' = ClearedResults(piiResults)
          /\ jsonSchema' = <<>>
          /\ scanPc' = "awaiting"
          /\ scanInput' = [data |-> rawData, piiTypesToScan |-> selectedPiiTypes,
                           bytes |-> rawBytes]
          /\ detectCall' = [status |-> "pending"]
          /\ schemaCall' = [status |-> "pending"]
  /\ UNCHANGED <<rawData, rawBytes, fileName, isProcessingPdf, selectedPiiTypes, readers,
                 flowVars>>
  /\ Render

\* detectPii as the client calls it: the oracle's answer is "failed" or its output.
DetectPii(input, answer) ==
  IF SkipsFlow(input) THEN [status |-> "ok", piiEntities |-> <<>>]
  ELSE IF answer = [status |-> "failed"] THEN [status |-> "error", message |-> "oracle"]
  ELSE DetectPiiFlow(input, answer)

\* Promise.all rejects as soon as one of the two calls has rejected.
JoinRejected(d, s) == d.status = "failed" \/ s.status = "failed"
\* Promise.all fulfils once both calls have fulfilled.
JoinFulfilled(d, s) == d.status = "ok" /\ s.status = "ok"

FormattedSchema_Strict(schema) ==
  IF JsonParse(schema).ok THEN JsonStringify(JsonParse(schema).value, 0) ELSE <<>>

\* The inner try of handleScan: the schema pretty-printed, or as it came
\* when it is not JSON.
FormattedSchema(schema) ==
  IF JsonParse(schema).ok THEN JsonStringify(JsonParse(schema).value, 0) ELSE schema

ScanContinue_NoFinally(d, s) ==
  IF JoinRejected(d, s)
  THEN /\ error' = MsgScanFailed \o (IF d.status = "failed" THEN d.message ELSE s.message)
       /\ scanPc' = "idle"
       /\ scanInput' = Null
       /\ UNCHANGED <<piiResults, jsonSchema, isLoading>>
  ELSE IF JoinFulfilled(d, s)
  THEN /\ piiResults' = d.result
       /\ IF s.result = Null
          THEN /\ error' = MsgScanFailed \o "TypeError"
               /\ UNCHANGED jsonSchema
          ELSE /\ jsonSchema' = FormattedSchema(s.result.schema)
               /\ UNCHANGED error
       /\ isLoading' = FALSE
       /\ scanPc' = "idle"
       /\ scanInput' = Null
  ELSE UNCHANGED <<piiResults, jsonSchema, error, isLoading, scanPc, scanInput>>

\* The rest of handleScan once Promise.all has settled with calls d and s.
ScanContinue(d, s) ==
  IF JoinRejected(d, s)
  THEN /\ error' = MsgScanFailed \o (IF d.status = "failed" THEN d.message ELSE s.message)
       /\ isLoading' = FALSE
       /\ scanPc' = "idle"
       /\ scanInput' = Null
       /\ UNCHANGED <<piiResults, jsonSchema>>
  ELSE IF JoinFulfilled(d, s)
  THEN /\ piiResults' = d.result
       /\ IF s.result = Null
          THEN /\ error' = MsgScanFailed \o "TypeError"
               /\ UNCHANGED jsonSchema
          ELSE /\ jsonSchema' = FormattedSchema(s.result.schema)
               /\ UNCHANGED error
       /\ isLoading' = FALSE
       /\ scanPc' = "idle"
       /\ scanInput' = Null
  ELSE UNCHANGED <<piiResults, jsonSchema, error, isLoading, scanPc, scanInput>>

\* What is kept of a promise: its value until the continuation of handleScan
\* has run, its state afterwards.
Kept(call, d, s) ==
  IF JoinRejected(d, s) \/ JoinFulfilled(d, s) THEN [status |-> call.status] ELSE call

\* The detectPii call of the scan in flight settles.
DetectSettles(answer) ==
  /\ scanPc = "awaiting" /\ detectCall.status = "pending"
  /\ \E r \in {DetectPii(scanInput, answer)} :
     \E d \in {IF r.status = "ok"
                THEN [status |-> "ok", result |-> [piiEntities |-> r.piiEntities]]
                ELSE [status |-> "failed", message |-> r.message]} :
        /\ ScanContinue(d, schemaCall)
        /\ detectCall' = Kept(d, d, schemaCall)
        /\ schemaCall' = Kept(schemaCall, d, schemaCall)
  /\ UNCHANGED <<rawData, rawBytes, fileName, isProcessingPdf, selectedPiiTypes,
                 readers, flowVars>>
  /\ Render

\* The generatePiiSchema call of the scan in flight settles.
SchemaSettles(answer) ==
  /\ scanPc = "awaiting" /\ schemaCall.status = "pending"
  /\ \E s \in {IF answer = [status |-> "failed"]
                THEN [status |-> "failed", message |-> "oracle"]
                ELSE [status |-> "ok", result |-> answer]} :
        /\ ScanContinue(detectCall, s)
        /\ detectCall' = Kept(detectCall, detectCall, s)
        /\ schemaCall' = Kept(s, detectCall, s)
  /\ UNCHANGED <<rawData, rawBytes, fileName, isProcessingPdf, selectedPiiTypes,
                 readers, flowVars>>
  /\ Render

Next ==
  \/ \E type \in {ClientTypes[i] : i \in 1..Len(ClientTypes)} : HandlePiiTypeChange(type)
  \/ \E file \in ClientFiles : HandleFileChange(file)
  \/ \E file \in ClientFiles : HandleDrop(file)
  \/ \E i \in 1..Len(readers) : ReaderLoad(i)
  \/ \E i \in 1..Len(readers) : ReaderError(i)
  \/ \E i \in 1..Len(readers), answer \in ClientPdfData \cup {[status |-> "failed"]} :
       ExtractSettles(i, answer)
  \/ \E t \in ClientTexts : TextareaChange(t)
  \/ ResetState
  \/ HandleScan
  \/ \E answer \in ClientOutputs \cup {[status |-> "failed"]} : DetectSettles(answer)
  \/ \E answer \in ClientSchemas \cup {[status |-> "failed"]} : SchemaSettles(answer)

Spec == InitClient /\ [][Next]_vars

\* The client with oracle calls that settle. Fairness is put on the step by
\* which a pending call of the scan in flight settles as failed: a call that
\* stays pending for ever leaves that step enabled for ever, and a call that
\* settles with an answer disables it, so the two conditions exclude exactly
\* the behaviours in which a call of a scan never settles.
SpecSettling ==
  /\ Spec
  /\ WF_vars(DetectSettles([status |-> "failed"]))
  /\ WF_vars(SchemaSettles([status |-> "failed"]))

\* ------------------------------------------------- the upload pipeline alone

\* The file input changes, with up to MaxUploads reads in flight.
UploadFileChange(file) ==
  /\ ~IsLoadingState
  /\ Len(readers) < MaxUploads
  /\ ProcessFile(file)
  /\ UNCHANGED <<isLoading, selectedPiiTypes, scanVars, flowVars>>
  /\ Render

\* A file is dropped on the upload label, with up to MaxUploads reads in flight.
UploadDrop(file) ==
  /\ Len(readers) < MaxUploads
  /\ ProcessFile(file)
  /\ UNCHANGED <<isLoading, selectedPiiTypes, scanVars, flowVars>>
  /\ Render

\* File selections, drops and the completions of their reads and extractions.
NextUpload ==
  \/ \E file \in ClientFiles : UploadFileChange(file)
  \/ \E file \in ClientFiles : UploadDrop(file)
  \/ \E i \in 1..Len(readers) : ReaderLoad(i)
  \/ \E i \in 1..Len(readers) : ReaderError(i)
  \/ \E i \in 1..Len(readers), answer \in ClientPdfData \cup {[status |-> "failed"]} :
       ExtractSettles(i, answer)
  \/ ResetState

SpecUpload == InitClient /\ [][NextUpload]_vars

\* ---------------------------------------------------------------- claims

PartTexts == [i \in 1..Len(parts) |-> parts[i].text]
AnnotatedIdx == {i \in 1..Len(parts) : parts[i].kind = "Annotated"}

\* C1 (partition law): whatever the document and the spans (none,
\* overlapping, unordered, out of range, zero length), the texts of the
\* rendered parts, concatenated in order, are exactly the document.
C1_Partition ==
  rendered => Concat(PartTexts) = rawData

\* C1 witness: overlapping, unordered spans, one of them out of range, were
\* rendered over a non-empty document and something was annotated.
C1_Witness ==
  /\ rendered
  /\ Len(rawData) = MaxDocLen
  /\ Len(piiResults.piiEntities) = 2
  /\ piiResults.piiEntities[1].start > piiResults.piiEntities[2].start
  /\ piiResults.piiEntities[2].start < 0
  /\ piiResults.piiEntities[1].end > piiResults.piiEntities[1].start
  /\ AnnotatedIdx # {}
  /\ Len(parts) = 2

\* C2 (no-overlap law): two Annotated parts never cover a common character
\* index of the document, and they come in strictly increasing start order.
C2_NoOverlap ==
  rendered => \A i, j \in AnnotatedIdx :
    i < j => /\ parts[i].entity.start < parts[j].entity.start
             /\ parts[i].entity.end <= parts[j].entity.start
             /\ parts[i].entity.start < parts[i].entity.end
             /\ parts[j].entity.start < parts[j].entity.end

\* C2 witness: two overlapping spans were given, in descending order, and
\* only the first-starting one is annotated.
C2_Witness ==
  /\ rendered
  /\ Len(piiResults.piiEntities) = 2
  /\ piiResults.piiEntities[1].start = 1 /\ piiResults.piiEntities[1].end = 2
  /\ piiResults.piiEntities[2].start = 0 /\ piiResults.piiEntities[2].end = 2
  /\ Cardinality(AnnotatedIdx) = 1
  /\ \E i \in AnnotatedIdx : parts[i].entity = piiResults.piiEntities[2]

\* The spans detectPii returned, when it returned.
Accepted ==
  IF flowPc = "done" /\ flowOut.status = "ok" THEN flowOut.piiEntities ELSE <<>>

\* The candidates the oracle proposed, when it answered with a list.
Candidates ==
  IF flowPc = "done" /\ oracleOut # Null /\ Has(oracleOut, "piiEntities")
  THEN oracleOut.piiEntities ELSE <<>>

\* value occupies doc[k, k + |value|) for some k with lo <= k and k + |value| <= hi.
OccursWithin(doc, value, lo, hi) ==
  \E k \in lo..(hi - Len(value)) : \A j \in 1..Len(value) : doc[k + j] = value[j]

\* The substring-identity condition of C3 for a span (value, start, end).
Identity(doc, value, start, end) ==
  \/ Substring(doc, start, end) = value
  \/ OccursWithin(doc, value, Max(0, start - 2), Min(Len(doc), end + 2))

\* C3 (substring identity): every span the validator returns has
\* doc.substring(start, end) equal to its value, or its value occurs in the
\* document window [max(0, start-2), min(doc.length, end+2)); a candidate
\* satisfying neither is not in the result.
C3_SubstringIdentity ==
  /\ \A i \in 1..Len(Accepted) :
       Identity(flowIn.data, Accepted[i].value, Accepted[i].start, Accepted[i].end)
  /\ \A i \in 1..Len(Candidates) :
       LET c == Candidates[i]
       IN (/\ Has(c, "value") /\ Has(c, "start") /\ Has(c, "end")
           /\ ~Identity(flowIn.data, c.value, c.start, c.end))
          => ~\E j \in 1..Len(Accepted) :
                /\ Accepted[j].value = c.value
                /\ Accepted[j].start = c.start
                /\ Accepted[j].end = c.end

\* C3 witness: a span was accepted on the fuzzy path (the exact substring
\* differs from the value) next to a candidate rejected for its indices.
C3_Witness ==
  /\ Len(Accepted) = 1
  /\ Len(Candidates) = 2
  /\ Substring(flowIn.data, Accepted[1].start, Accepted[1].end) # Accepted[1].value
  /\ \E i \in 1..2 :
       /\ Has(Candidates[i], "type") /\ Has(Candidates[i], "value")
       /\ Has(Candidates[i], "start") /\ Has(Candidates[i], "end")
       /\ Candidates[i].type = NAME
       /\ Candidates[i].start < Candidates[i].end
       /\ Candidates[i].value # <<>>
       /\ ArrayIncludes(flowIn.piiTypesToScan, NAME)
       /\ ~Identity(flowIn.data, Candidates[i].value, Candidates[i].start,
                    Candidates[i].end)

\* C4 (bounds), as claimed: every span the validator returns satisfies
\* 0 <= start < end <= doc.length.
C4_InBounds ==
  \A i \in 1..Len(Accepted) :
    /\ 0 <= Accepted[i].start
    /\ Accepted[i].start < Accepted[i].end
    /\ Accepted[i].end <= Len(flowIn.data)

\* C5 (category allow-list): the category of every accepted span is one of
\* the categories requested for the scan and one of the catalog; no label
\* outside the catalog is the category of an accepted span.
C5_AllowList ==
  \A i \in 1..Len(Accepted) :
    /\ ArrayIncludes(flowIn.piiTypesToScan, Accepted[i].type)
    /\ ArrayIncludes(PII_TYPES, Accepted[i].type)

\* C5 witness: a candidate labelled "pii_emails" was accepted as EMAIL while
\* a candidate with the unrecognized label "XYZ" was dropped.
C5_Witness ==
  /\ Len(Candidates) = 2
  /\ Len(Accepted) = 1
  /\ Accepted[1].type = EMAIL
  /\ Has(Candidates[1], "type") /\ Candidates[1].type = <<"X", "Y", "Z">>
  /\ Has(Candidates[2], "type")
  /\ Candidates[2].type = <<"p", "i", "i", "_", "e", "m", "a", "i", "l", "s">>

\* C6 (totality), as claimed: whatever the fields of the candidates, once
\* the oracle has answered the validator returns normally.
C6_Total ==
  flowPc = "done" => flowOut.status = "ok"

\* C9 (empty category set): a call with zero categories never reaches the
\* oracle and returns an empty result: no spans and no counts.
C9_EmptyTypes ==
  (flowPc # "idle" /\ Len(flowIn.piiTypesToScan) = 0) =>
    /\ promptCalls = 0
    /\ flowPc \in {"start", "done"}
    /\ flowPc = "done" =>
         /\ flowOut = [status |-> "ok", piiEntities |-> <<>>]
         /\ DOMAIN PiiSummaryCounts([piiEntities |-> flowOut.piiEntities]) = {}

\* C9 witness: detectPii has returned for a non-empty document with zero
\* categories.
C9_Witness ==
  /\ flowPc = "done"
  /\ Len(flowIn.piiTypesToScan) = 0
  /\ Len(flowIn.data) = MaxDataLen

\* C7 (joined oracle calls): a result is stored only in a step in which
\* both calls of the scan have fulfilled, and when handleScan finishes with
\* one of its two calls rejected, piiResults is null, jsonSchema is empty,
\* error is a non-empty message and nothing is shown, whatever the other
\* call returned.
C7_JoinedFailure ==
  [][/\ (piiResults' # piiResults /\ piiResults' # Null) =>
          JoinFulfilled(detectCall', schemaCall')
     /\ (jsonSchema' # jsonSchema /\ jsonSchema' # <<>>) =>
          JoinFulfilled(detectCall', schemaCall')
     /\ (scanPc = "awaiting" /\ scanPc' = "idle"
         /\ JoinRejected(detectCall', schemaCall')) =>
          /\ piiResults' = Null
          /\ jsonSchema' = <<>>
          /\ error' # ""
          /\ ~isLoading'
          /\ ~rendered']_vars

\* C7 witness: a scan has finished with the schema call rejected after its
\* detectPii call had returned.
C7_Witness ==
  /\ scanPc = "idle"
  /\ schemaCall.status = "failed"
  /\ detectCall.status = "ok"
  /\ rawData # <<>>
  /\ piiResults = Null
  /\ jsonSchema = <<>>
  /\ error = MsgScanFailed \o "oracle"

\* C8 (preflight), as claimed: the oracle calls of a scan are only ever
\* issued for a non-empty input with at least one category selected and a
\* size within the limit.
C8_Preflight ==
  scanPc = "awaiting" =>
    /\ scanInput.data # <<>>
    /\ Len(scanInput.piiTypesToScan) > 0
    /\ scanInput.bytes <= FileSizeLimit

RECURSIVE SumOver(_, _)
SumOver(f, S) ==
  IF S = {} THEN 0
  ELSE LET k == CHOOSE x \in S : TRUE IN f[k] + SumOver(f, S \ {k})

\* C10 (summary): the summary has exactly the categories of the accepted
\* spans as keys, each mapped to the number of accepted spans of that
\* category (never 0), and the counts add up to the number of accepted
\* spans.
C10_SummaryCounts ==
  piiResults # Null =>
    LET es == piiResults.piiEntities
        counts == PiiSummaryCounts(piiResults)
    IN /\ DOMAIN counts = {es[i].type : i \in 1..Len(es)}
       /\ \A k \in DOMAIN counts :
            /\ counts[k] = Cardinality({i \in 1..Len(es) : es[i].type = k})
            /\ counts[k] > 0
       /\ SumOver(counts, DOMAIN counts) = Len(es)

\* C10 witness: a scan has stored three accepted spans, two of one
\* category and one of another.
C10_Witness ==
  /\ piiResults # Null
  /\ Len(piiResults.piiEntities) = 3
  /\ PiiSummaryCounts(piiResults) = (NAME :> 2) @@ (EMAIL :> 1)

\* C11 (sorted result), as claimed: the spans detectPii returns are in
\* ascending order of start, whatever order the oracle proposed them in.
C11_SortedByStart ==
  \A i, j \in 1..Len(Accepted) : i < j => Accepted[i].start <= Accepted[j].start

\* The candidates of the CSV example, by their start index.
CsvName(start) ==
  [type |-> NAME, value |-> Alice, start |-> start, end |-> start + Len(Alice),
   confidence |-> "high"]
CsvEmail(start) ==
  [type |-> EMAIL, value |-> AliceEmail, start |-> start, end |-> start + Len(AliceEmail),
   confidence |-> "high"]

\* The scan of document doc for NAME and EMAIL, answered with NAME "Alice"
\* at n and EMAIL "alice@web.com" at e, has been shown.
CsvShown(doc, n, e) ==
  /\ flowPc = "shown"
  /\ flowIn = [data |-> doc, piiTypesToScan |-> <<EMAIL, NAME>>]
  /\ oracleOut = [piiEntities |-> <<CsvName(n), CsvEmail(e)>>]

\* What the example expects of that scan: both candidates pass the exact
\* substring check and are returned, the parts are the header line, Alice
\* as NAME, the comma, and the address as EMAIL, and the counts are
\* NAME 1, EMAIL 1.
CsvExpected(doc, n, e) ==
  /\ Substring(doc, n, n + Len(Alice)) = Alice
  /\ Substring(doc, e, e + Len(AliceEmail)) = AliceEmail
  /\ flowOut = [status |-> "ok", piiEntities |-> <<CsvName(n), CsvEmail(e)>>]
  /\ parts = <<Plain(SubSeq(doc, 1, n)), Annotated(Alice, CsvName(n)),
               Plain(<<",">>), Annotated(AliceEmail, CsvEmail(e))>>
  /\ Concat(<<SubSeq(doc, 1, n), Alice, <<",">>, AliceEmail>>) = doc
  /\ PiiSummaryCounts(piiResults) = (NAME :> 1) @@ (EMAIL :> 1)

ProposedLabel == oracleOut.piiEntities[1].type

\* The categories of the accepted spans: empty when the candidate was rejected.
AcceptedAs == {Accepted[i].type : i \in 1..Len(Accepted)}

\* C13 (normalization table): with the full catalog requested, a candidate
\* labelled "EMAILS" is accepted as EMAIL, "PII_NAME" as NAME and
\* "PHONE NUMBER" as PHONE, a candidate labelled "XYZ_UNKNOWN" is rejected,
\* and no candidate is accepted under a label outside the catalog.
C13_Normalization ==
  (flowPc = "done" /\ flowIn.piiTypesToScan = PII_TYPES) =>
    /\ ProposedLabel = <<"E", "M", "A", "I", "L", "S">> => AcceptedAs = {EMAIL}
    /\ ProposedLabel = <<"P", "I", "I", "_", "N", "A", "M", "E">> => AcceptedAs = {NAME}
    /\ ProposedLabel = <<"P", "H", "O", "N", "E", " ", "N", "U", "M", "B", "E", "R">>
         => AcceptedAs = {PHONE}
    /\ ProposedLabel = XYZ_UNKNOWN => Accepted = <<>>
    /\ \A t \in AcceptedAs : ArrayIncludes(PII_TYPES, t)

\* C13 witness: a candidate labelled "PHONE NUMBER" has been accepted as
\* PHONE with the full catalog requested.
C13_Witness ==
  /\ flowPc = "done"
  /\ flowIn.piiTypesToScan = PII_TYPES
  /\ ProposedLabel = <<"P", "H", "O", "N", "E", " ", "N", "U", "M", "B", "E", "R">>
  /\ AcceptedAs = {PHONE}

\* handleScan finishes in this step with both of its calls fulfilled.
ScanFulfils ==
  scanPc = "awaiting" /\ scanPc' = "idle" /\ JoinFulfilled(detectCall', schemaCall')

C15_Deterministic ==
  /\ rendered => parts = HighlightedTextViewer(rawData, piiResults.piiEntities)
  /\ \A i, j \in 1..Len(seen) :
       (seen[i].text = seen[j].text /\ seen[i].entities = seen[j].entities)
         => seen[i].parts = seen[j].parts

\* C15 witness: the first and third renders had the same props, the
\* second, in between, had the same document with other spans and gave
\* other parts.
C15_Witness ==
  /\ Len(seen) = 3
  /\ seen[1].text = seen[3].text /\ seen[1].entities = seen[3].entities
  /\ seen[2].text = seen[1].text /\ seen[2].entities # seen[1].entities
  /\ seen[2].parts # seen[1].parts
  /\ seen[3].parts = seen[1].parts
  /\ Len(seen[1].parts) = 2

\* The position of a category in the catalog.
CatalogIndex(t) == CHOOSE i \in 1..Len(PII_TYPES) : PII_TYPES[i] = t

\* C16 (presentation order), as claimed: the badges of the summary come in
\* the catalog's order of categories, whatever the order in which the
\* spans of each category first appear in the result.
C16_CatalogOrder ==
  piiResults # Null =>
    LET entries == SummaryEntries(piiResults)
    IN \A i, j \in 1..Len(entries) :
         i < j => CatalogIndex(entries[i][1]) < CatalogIndex(entries[j][1])

\* The spans handed to the viewer, in the order it processes them.
Sorted == SortByStart(piiResults.piiEntities)

\* The accumulator (result, lastIndex) after the first k spans.
CursorAfter(k) ==
  ViewerLoop([result |-> <<>>, lastIndex |-> 0], SubSeq(Sorted, 1, k), rawData)

RECURSIVE CursorTrace(_, _, _)
\* The accumulators of the loop over es, from the one it starts with to the
\* one it ends with: element k + 1 is the accumulator after the first k spans.
CursorTrace(acc, es, text) ==
  IF es = <<>> THEN <<acc>>
  ELSE <<acc>> \o CursorTrace(ViewerStep(acc, Head(es), text), Tail(es), text)

\* C17 (overlap drop policy): a span reached with start < lastIndex adds no
\* part and leaves lastIndex as it was; for "HelloWorld!!" with A{0,5,NAME}
\* and B{3,8,ADDRESS}, in either order, the parts are exactly
\* Annotated("Hello", NAME), Plain("World!!").
C17_OverlapDrop ==
  rendered =>
    \E sorted \in {Sorted} :
      \E cursors \in {CursorTrace([result |-> <<>>, lastIndex |-> 0], sorted, rawData)} :
        /\ \A k \in 1..Len(sorted) :
             sorted[k].start < cursors[k].lastIndex => cursors[k + 1] = cursors[k]
        /\ (rawData = HelloWorld
            /\ piiResults.piiEntities \in {<<SpanA, SpanB>>, <<SpanB, SpanA>>})
             => parts = <<Annotated(SubSeq(HelloWorld, 1, 5), SpanA),
                          Plain(SubSeq(HelloWorld, 6, 12))>>
        /\ (Len(sorted) > 0 /\ cursors[Len(sorted) + 1].lastIndex < Len(rawData))
             => parts[Len(parts)] =
                  Plain(SubSeq(rawData, cursors[Len(sorted) + 1].lastIndex + 1,
                               Len(rawData)))

\* C17 witness: "HelloWorld!!" was rendered with B given before A, and the
\* two parts are "Hello" annotated and "World!!" plain.
C17_Witness ==
  /\ rendered
  /\ rawData = HelloWorld
  /\ piiResults.piiEntities = <<SpanB, SpanA>>
  /\ Len(parts) = 2
  /\ parts[1].kind = "Annotated" /\ parts[1].entity = SpanA
  /\ parts[2] = Plain(<<"W", "o", "r", "l", "d", "!", "!">>)

\* The first span of the input sequence that has the given start.
FirstWithStart(start) ==
  LET es == piiResults.piiEntities
  IN es[CHOOSE i \in 1..Len(es) :
          /\ es[i].start = start
          /\ \A j \in 1..Len(es) : es[j].start = start => i <= j]

\* C18 (same start), as claimed: of the spans that share a start, only the
\* one that comes first in the input sequence is ever rendered as an
\* Annotated part; the later ones are dropped, whatever their ends.
C18_FirstOfTieWins ==
  rendered =>
    \A p \in AnnotatedIdx : parts[p].entity = FirstWithStart(parts[p].entity.start)

\* The k-th span in sorted order is rendered: an Annotated part carries it
\* with the text doc[start:end], preceded by the Plain part
\* doc[lastIndex:start] when start lies beyond the cursor.
EmittedAt(k) ==
  LET e == Sorted[k]
      cursor == CursorAfter(k - 1).lastIndex
  IN \E p \in AnnotatedIdx :
       /\ parts[p].entity = e
       /\ parts[p].text = SubSeq(rawData, e.start + 1, e.end)
       /\ Len(parts[p].text) = e.end - e.start
       /\ e.start > cursor =>
            (p > 1 /\ parts[p - 1] = Plain(SubSeq(rawData, cursor + 1, e.start)))

\* C19 (overlap is the only drop), as claimed: every span of a result of
\* the validator that is reached, in sorted order, with start >= lastIndex
\* is rendered.
C19_OnlyOverlapDrops ==
  flowPc = "shown" =>
    \A k \in 1..Len(Sorted) :
      Sorted[k].start >= CursorAfter(k - 1).lastIndex => EmittedAt(k)

\* A candidate on the fuzzy path: it has every field, a requested catalog
\* category, 0 <= start < end <= doc.length, a value that is not
\* doc.substring(start, end) but occurs in the window widened by the padding.
FuzzyCandidate(doc, types, c) ==
  /\ Has(c, "type") /\ Has(c, "value") /\ Has(c, "start") /\ Has(c, "end")
  /\ c.value # <<>>
  /\ 0 <= c.start /\ c.start < c.end /\ c.end <= Len(doc)
  /\ ArrayIncludes(types, CorrectType(NormalizeType(c.type)))
  /\ SubSeq(doc, c.start + 1, c.end) # c.value
  /\ OccursWithin(doc, c.value, Max(0, c.start - IndexPadding),
                  Min(Len(doc), c.end + IndexPadding))

\* C20 (fuzzy recovery completeness): when the validator returns a result,
\* every candidate that passes the field, bounds and category checks, fails
\* the exact check and whose value occurs in the window widened by 2 on each
\* side is in the result with its original start and end, and no span of the
\* result stands for it at another offset.
C20_FuzzyRecovery ==
  (flowPc = "done" /\ flowOut.status = "ok") =>
    \A i \in 1..Len(Candidates) :
      LET c == Candidates[i]
      IN FuzzyCandidate(flowIn.data, flowIn.piiTypesToScan, c) =>
           /\ \E j \in 1..Len(Accepted) :
                /\ Accepted[j].value = c.value
                /\ Accepted[j].start = c.start
                /\ Accepted[j].end = c.end
                /\ Accepted[j].type = CorrectType(NormalizeType(c.type))
           /\ Len(Candidates) = 1 =>
                (Len(Accepted) = 1 /\ Accepted[1].start = c.start
                 /\ Accepted[1].end = c.end)

\* C20 witness: the only candidate was accepted on the fuzzy path, and its
\* value is found in the document at an offset that is not its start.
C20_Witness ==
  /\ flowPc = "done" /\ flowOut.status = "ok"
  /\ Len(Candidates) = 1
  /\ FuzzyCandidate(flowIn.data, flowIn.piiTypesToScan, Candidates[1])
  /\ Len(Accepted) = 1
  /\ Accepted[1].start = Candidates[1].start
  /\ \E k \in 0..(Len(flowIn.data) - Len(Accepted[1].value)) :
       /\ k # Accepted[1].start
       /\ OccursWithin(flowIn.data, Accepted[1].value, k, k + Len(Accepted[1].value))

\* MissingField of a candidate: value empty or absent, start or end absent,
\* or end <= start.
MissingField(c) ==
  \/ ~Has(c, "value")
  \/ ~Has(c, "start")
  \/ ~Has(c, "end")
  \/ c.value = <<>>
  \/ c.end <= c.start

\* The candidates of the oracle's answer that are not MissingField.
WithFields == {i \in 1..Len(Candidates) : ~MissingField(Candidates[i])}

\* C21 (missing field): a candidate whose value is empty or absent, whose
\* start or end is absent, or whose end <= start is rejected whatever its
\* label and whatever the document: no span of the result has such fields,
\* the result has at most as many spans as there are candidates without the
\* defect, and an answer made only of such candidates gives the empty result.
C21_MissingField ==
  flowPc = "done" =>
    /\ \A j \in 1..Len(Accepted) : ~MissingField(Accepted[j])
    /\ Len(Accepted) <= Cardinality(WithFields)
    /\ (Candidates # <<>> /\ WithFields = {})
         => (flowOut.status = "ok" /\ flowOut.piiEntities = <<>>)

\* C21 witness: of two candidates with a requested label, one has end <= start
\* although its value stands in the document around its start, and only the
\* other one is in the result.
C21_Witness ==
  /\ flowPc = "done" /\ flowOut.status = "ok"
  /\ Len(Candidates) = 2
  /\ Len(Accepted) = 1
  /\ \E i \in 1..2 :
       LET c == Candidates[i]
       IN /\ Has(c, "type") /\ Has(c, "value") /\ Has(c, "start") /\ Has(c, "end")
          /\ c.value # <<>>
          /\ c.end <= c.start
          /\ 0 <= c.start /\ c.end <= Len(flowIn.data)
          /\ ArrayIncludes(flowIn.piiTypesToScan, CorrectType(NormalizeType(c.type)))
          /\ OccursWithin(flowIn.data, c.value, Max(0, c.start - IndexPadding),
                          Min(Len(flowIn.data), c.end + IndexPadding))

\* The correction-table entry of a word, or the word when it has none.
Corrected(w) ==
  LET hits == {i \in 1..Len(PII_TYPE_CORRECTIONS) : PII_TYPE_CORRECTIONS[i][1] = w}
  IN IF hits = {} THEN w ELSE PII_TYPE_CORRECTIONS[CHOOSE i \in hits : TRUE][2]

\* The reference normalizer: uppercase and trim, strip PII_ when it leads,
\* apply the correction table; the set holding the catalog entry reached, or
\* the empty set for Unrecognized.
Reference(label) ==
  LET u == Trim(ToUpperCase(label))
      stripped == IF Len(u) >= 4 /\ SubSeq(u, 1, 4) = <<"P", "I", "I", "_">>
                  THEN SubSeq(u, 5, Len(u)) ELSE u
      c == Corrected(stripped)
  IN IF \E i \in 1..Len(PII_TYPES) : PII_TYPES[i] = c THEN {c} ELSE {}

\* C22 (normalizer against the reference), as claimed: with the full catalog
\* requested, the category under which a candidate is accepted is the one the
\* reference normalizer gives its label, and it is rejected when the
\* reference gives Unrecognized.
C22_LabelReference ==
  (flowPc = "done" /\ flowIn.piiTypesToScan = PII_TYPES) =>
    AcceptedAs = Reference(ProposedLabel)

\* A candidate with its label replaced by the normalized category and every
\* other field as it was.
Retyped(c) == [c EXCEPT !.type = CorrectType(NormalizeType(c.type))]

RECURSIVE PickFrom(_, _)
\* The candidates with index in S from the k-th on, in the oracle's order,
\* each with its category normalized.
PickFrom(k, S) ==
  IF k > Len(Candidates) THEN <<>>
  ELSE (IF k \in S THEN <<Retyped(Candidates[k])>> ELSE <<>>) \o PickFrom(k + 1, S)

\* C23 (frame of an accepted span): the result is a selection of the oracle's
\* candidates in their order, each equal to its candidate in value, start,
\* end and confidence, with only the category replaced by the normalized one;
\* no span of the result comes from anywhere else.
C23_FieldsCarried ==
  (flowPc = "done" /\ flowOut.status = "ok") =>
    \E S \in SUBSET {i \in 1..Len(Candidates) : Has(Candidates[i], "type")} :
      Accepted = PickFrom(1, S)

\* C23 witness: two candidates were accepted, the first under a label that
\* is not a catalog entry, and its confidence and indices are the candidate's.
C23_Witness ==
  /\ flowPc = "done" /\ flowOut.status = "ok"
  /\ Len(Candidates) = 2
  /\ Len(Accepted) = 2
  /\ Candidates[1].type = <<"p", "i", "i", "_", "e", "m", "a", "i", "l", "s">>
  /\ Accepted[1].type = EMAIL
  /\ Accepted[1].confidence = Candidates[1].confidence
  /\ Accepted[1].start = Candidates[1].start
  /\ Accepted[1].end = Candidates[1].end
  /\ Accepted[1].value = Candidates[1].value

\* C24 (the scan owns its text), as claimed: while a scan is in flight, from
\* handleScan setting isLoading until it clears it, no step changes rawData.
C24_TextFrozen == [][isLoading => rawData' = rawData]_vars

\* The candidates of the answer that are not in the result.
Rejected == Len(Candidates) - Len(Accepted)

\* C25 (rejections are reported, never raised), as claimed: the call returns
\* a result whatever the candidates are, and every rejected candidate has
\* been reported to the diagnostics channel, once.
C25_RejectionsReported ==
  (flowPc = "done" /\ Candidates # <<>>) =>
    /\ flowOut.status = "ok"
    /\ Len(warnings) = Rejected

\* C26 (results are shown over their own text), as claimed: the step that
\* stores results leaves rawData equal to the text that was sent to the
\* oracles, and while results stay displayed no step changes rawData.
C26_ResultsMatchText ==
  [][/\ (piiResults = Null /\ piiResults' # Null) => rawData' = scanInput.data
     /\ (piiResults # Null /\ piiResults' # Null /\ ~isLoading /\ ~isLoading')
          => rawData' = rawData]_vars

\* The Annotated parts on display whose span has category k.
AnnotatedOf(k) == {p \in AnnotatedIdx : parts[p].entity.type = k}

\* C27 (summary against highlights), as claimed: for the results on display,
\* the counts of the summary add up to the number of Annotated parts, and
\* the count of each category is the number of Annotated parts of it.
C27_SummaryMatchesParts ==
  rendered =>
    LET counts == PiiSummaryCounts(piiResults)
    IN /\ SumOver(counts, DOMAIN counts) = Cardinality(AnnotatedIdx)
       /\ \A k \in DOMAIN counts : counts[k] = Cardinality(AnnotatedOf(k))
       /\ \A p \in AnnotatedIdx : parts[p].entity.type \in DOMAIN counts

\* The offsets at which value stands in doc.
OffsetsOf(doc, value) ==
  {k \in 0..(Len(doc) - Len(value)) : SubSeq(doc, k + 1, k + Len(value)) = value}

Abs(n) == IF n < 0 THEN 0 - n ELSE n

\* C28 (bounded drift), as claimed: the value of every accepted span stands
\* in the document at an offset at most 2 away from its start, and its
\* length differs from end - start by at most 4.
C28_DriftBounded ==
  \A i \in 1..Len(Accepted) :
    LET e == Accepted[i]
    IN /\ \E k \in OffsetsOf(flowIn.data, e.value) : Abs(k - e.start) <= 2
       /\ Abs(Len(e.value) - (e.end - e.start)) <= 4

\* C28, amended: the value of every accepted span stands in the document at
\* an offset k with max(0, start - 2) <= k and k + |value| <=
\* min(doc.length, end + 2); so |value| <= end - start + 4, while the value
\* may be shorter than the span by any amount and k may be farther than 2
\* from start.
C28_DriftWithinWindow ==
  \A i \in 1..Len(Accepted) :
    LET e == Accepted[i]
    IN /\ \E k \in OffsetsOf(flowIn.data, e.value) :
            /\ Max(0, e.start - 2) <= k
            /\ k + Len(e.value) <= Min(Len(flowIn.data), e.end + 2)
       /\ Len(e.value) <= e.end - e.start + 4

\* C28 witness: a span within the document was accepted whose value stands in
\* the document only at offsets more than 2 away from its start.
C28_Witness ==
  /\ Len(Accepted) = 1
  /\ 0 <= Accepted[1].start /\ Accepted[1].end <= Len(flowIn.data)
  /\ OffsetsOf(flowIn.data, Accepted[1].value) # {}
  /\ \A k \in OffsetsOf(flowIn.data, Accepted[1].value) : Abs(k - Accepted[1].start) > 2

\* The texts rawData can hold for a file once its read or extraction has
\* completed: the content of a text file, the pretty-printed JSON of a PDF.
ContentsOf(file) ==
  IF file.type = "application/pdf"
  THEN {JsonStringify(JsonParse(d.jsonData).value, 0) :
          d \in {x \in ClientPdfData \ {Null} : JsonParse(x.jsonData).ok}}
  ELSE {file.content}

\* C29 (uploads), as claimed: once every read and extraction has completed
\* without an error, rawData holds the content of the file named by
\* fileName, and isProcessingPdf is true whenever a PDF extraction is in
\* flight.
C29_LastFileShown ==
  /\ (readers = <<>> /\ error = "" /\ fileName # "")
       => \A f \in ClientFiles : f.name = fileName => rawData \in ContentsOf(f)
  /\ \A i \in 1..Len(readers) : readers[i].stage = "extracting" => isProcessingPdf

\* C30 (a scan finishes loading): when the oracle calls settle, a scan that
\* has set isLoading is followed by isLoading being false again, and the
\* step that clears isLoading leaves piiResults non-null or error non-empty.
C30_ScanFinishes ==
  /\ isLoading ~> ~isLoading
  /\ [][(isLoading /\ ~isLoading') => (piiResults' # Null \/ error' # "")]_vars

\* C30 witness: a scan has finished with a rejected oracle call: loading is
\* over, no results are stored and the error is set.
C30_Witness ==
  /\ ~isLoading
  /\ scanPc = "idle"
  /\ detectCall.status = "failed" \/ schemaCall.status = "failed"
  /\ piiResults = Null
  /\ error # ""
====
